---- MODULE Spec2Model ----
(***************************************************************************)
(* Playback commands of the MPD frontend (mopidy_mpd/protocol/playback.py). *)
(*                                                                         *)
(* Every command handler is one action.  A handler talks to the Mopidy     *)
(* core actor through its proxy: a call followed by .get() is awaited, a   *)
(* call without .get() is only put in the actor's mailbox.  The mailbox is *)
(* first-in first-out, so an awaited call returns only after every request *)
(* sent before it has been processed.                                      *)
(*                                                                         *)
(* Times given by the client are seconds with a fractional part; they are  *)
(* held here as an integer number of 1/10000 s, so 1.5 s is 15000 and      *)
(* 0.0006 s is 6.  Positions inside a track are milliseconds.              *)
(***************************************************************************)
EXTENDS Integers, Sequences, FiniteSets

VARIABLES
    tl_tracks,      \* core.tracklist: the tlids of the tracklist, in order
    state,          \* core.playback state: "stopped", "playing", "paused"
    current_tlid,   \* tlid of the current tl_track, NoTrack for None
    time_position,  \* elapsed milliseconds in the current track
    modes,          \* core.tracklist: repeat, random, single, consume
    volume,         \* core.mixer: the volume, 0..100
    job,            \* the volume command under way, and what it read
    inbox,          \* requests sent to the core actor and not yet processed
    cmd,            \* the last command of the session and its arguments
    seen,           \* the core as the last command found it
    calls,          \* the core calls the last command made, in order
    reply           \* the reply to the last command

vars == <<tl_tracks, state, current_tlid, time_position, modes, volume, job,
          inbox, cmd, seen, calls, reply>>

----------------------------------------------------------------------------
(* Bounds of the model *)

MaxTlid == 3        \* tlids are 1..MaxTlid
MaxTracks == 3      \* longest tracklist
MaxInbox == 1       \* most requests waiting in the actor's mailbox
TrackLength == 20000 \* every track is this long (ms); no seek goes past it

NoTrack == 0        \* stands for None where a tlid is expected
NoIndex == -1000    \* stands for None where a tracklist position is expected

TlIds == 1..MaxTlid

Range(s) == {s[i] : i \in 1..Len(s)}

Min(a, b) == IF a < b THEN a ELSE b
Max(a, b) == IF a > b THEN a ELSE b

\* Tracklists: sequences of distinct tlids, not necessarily in id order.
TrackLists ==
    {s \in UNION {[1..n -> TlIds] : n \in 0..MaxTracks} :
        \A i, j \in 1..Len(s) : i # j => s[i] # s[j]}

\* Arguments the client can send.
SongPositions == -(MaxTracks + 1)..MaxTracks      \* play: protocol.INT
SongIds == -2..MaxTlid                            \* playid: protocol.INT
SeekPositions == 0..MaxTracks                     \* seek: protocol.UINT
SeekIds == 0..MaxTlid                             \* seekid: protocol.UINT
SeekSeconds == {0, 50000, 200000}                 \* 0 s, 5 s, 20 s
SeekOffsets == {50000}                            \* "+5.0" and "-5.0"
PauseArgs == {"None", "True", "False"}

----------------------------------------------------------------------------
(* The Mopidy core, as the handlers use it.  k is the record                *)
(* [state, current_tlid, time_position, tl_tracks, modes, volume].          *)
(* Every track is playable and TrackLength ms long, and no seek target      *)
(* lies past its end (the core would go to the next track there).           *)

\* core.tracklist.slice(start, end): a Python list slice, so a negative
\* bound counts from the end of the list and an empty range gives [].
TracklistSlice(k, start, end) ==
    LET n == Len(k.tl_tracks)
        norm(i) == IF i < 0 THEN Max(n + i, 0) ELSE Min(i, n)
    IN  SubSeq(k.tl_tracks, norm(start) + 1, norm(end))

\* core.tracklist.filter({"tlid": [tlid]}): the entries with that tlid.
TracklistFilter(k, tlid) ==
    SelectSeq(k.tl_tracks, LAMBDA t : t = tlid)

\* core.tracklist.index(tl_track): the position of the entry, None if the
\* entry is None or not in the tracklist.
TracklistIndex(k, tlid) ==
    IF tlid \in Range(k.tl_tracks)
    THEN (CHOOSE i \in 1..Len(k.tl_tracks) : k.tl_tracks[i] = tlid) - 1
    ELSE NoIndex

\* core.playback.resume(): only a paused player with a track loaded resumes.
PlaybackResume(k) ==
    IF k.state = "paused" /\ k.current_tlid # NoTrack
    THEN [k EXCEPT !.state = "playing"]
    ELSE k

\* core.playback.pause(): the state becomes paused whatever it was.
PlaybackPause(k) == [k EXCEPT !.state = "paused"]

\* core.playback.stop(): the track stays loaded, the position is reset.
PlaybackStop(k) ==
    IF k.state = "stopped" THEN k
    ELSE [k EXCEPT !.state = "stopped", !.time_position = 0]

\* core.playback.play(tlid): start the entry with that tlid; with no tlid
\* resume if paused, else start the current entry again or, with none
\* loaded, the first entry of the tracklist.
PlaybackPlay(k, tlid) ==
    LET found == tlid # NoTrack /\ tlid \in Range(k.tl_tracks)
        pending == IF found THEN tlid
                   ELSE IF k.current_tlid # NoTrack THEN k.current_tlid
                   ELSE IF k.tl_tracks # <<>> THEN k.tl_tracks[1]
                   ELSE NoTrack
    IN  IF ~found /\ k.state = "paused" THEN PlaybackResume(k)
        ELSE IF pending = NoTrack THEN k
        ELSE [k EXCEPT !.state = "playing", !.current_tlid = pending,
                       !.time_position = 0]

\* core.playback.seek(ms): a negative target is taken as 0, a stopped
\* player is started first, and nothing happens without a track.
PlaybackSeek(k, ms) ==
    LET k1 == IF k.state = "stopped" THEN PlaybackPlay(k, NoTrack) ELSE k
    IN  IF k.tl_tracks = <<>> \/ k1.current_tlid = NoTrack THEN k
        ELSE [k1 EXCEPT !.time_position = Max(ms, 0)]

\* The tracklist without the entry tlid.
Without(tl, tlid) == SelectSeq(tl, LAMBDA t : t # tlid)

\* core.tracklist.next_track(tl_track): the entry a next goes to, None at
\* the end of the playlist. In random mode it is pick, the draw of the
\* random order.
TracklistNextTrack(k, pick) ==
    LET n == Len(k.tl_tracks)
        i == TracklistIndex(k, k.current_tlid)
    IN  IF n = 0 THEN NoTrack
        ELSE IF k.modes.random THEN pick
        ELSE IF i = NoIndex THEN k.tl_tracks[1]
        ELSE IF k.modes.repeat
        THEN IF k.modes.consume /\ n = 1 THEN NoTrack
             ELSE k.tl_tracks[((i + 1) % n) + 1]
        ELSE IF i + 1 >= n THEN NoTrack
        ELSE k.tl_tracks[i + 2]

\* core.tracklist.previous_track(tl_track): the entry a previous goes to.
TracklistPreviousTrack(k) ==
    LET i == TracklistIndex(k, k.current_tlid)
    IN  IF k.modes.repeat \/ k.modes.consume \/ k.modes.random
        THEN k.current_tlid
        ELSE IF i = NoIndex \/ i = 0 THEN NoTrack
        ELSE k.tl_tracks[i]

\* core.playback.next(): nothing without a current track; else change to
\* the next track and keep the playback state, or at the end of the
\* playlist stop and unset the current track. In consume mode the track
\* left behind is taken out of the tracklist.
PlaybackNext(k, pick) ==
    LET pending == TracklistNextTrack(k, pick)
        tl == IF k.modes.consume /\ pending # k.current_tlid
              THEN Without(k.tl_tracks, k.current_tlid)
              ELSE k.tl_tracks
    IN  IF k.current_tlid = NoTrack THEN k
        ELSE IF pending = NoTrack
        THEN [k EXCEPT !.state = "stopped", !.current_tlid = NoTrack,
                       !.time_position = 0, !.tl_tracks = tl]
        ELSE [k EXCEPT !.current_tlid = pending, !.time_position = 0,
                       !.tl_tracks = tl]

\* core.playback.previous(): nothing without a current track; else change
\* to the previous track and keep the playback state, or with no previous
\* track stop and unset the current track. The time position is not
\* looked at.
PlaybackPrevious(k) ==
    LET pending == TracklistPreviousTrack(k)
    IN  IF k.current_tlid = NoTrack THEN k
        ELSE IF pending = NoTrack
        THEN [k EXCEPT !.state = "stopped", !.current_tlid = NoTrack,
                       !.time_position = 0]
        ELSE [k EXCEPT !.current_tlid = pending, !.time_position = 0]

\* core.tracklist.set_consume(value) and the like.
TracklistSetMode(k, mode, value) == [k EXCEPT !.modes[mode] = value]

\* The actor processes one waiting request.
Process(k, msg) ==
    IF msg.op = "stop" THEN PlaybackStop(k)
    ELSE IF msg.op = "set_consume"
    THEN TracklistSetMode(k, "consume", msg.arg = 1)
    ELSE IF msg.op = "set_random"
    THEN TracklistSetMode(k, "random", msg.arg = 1)
    ELSE IF msg.op = "set_repeat"
    THEN TracklistSetMode(k, "repeat", msg.arg = 1)
    ELSE IF msg.op = "set_single"
    THEN TracklistSetMode(k, "single", msg.arg = 1)
    ELSE k

RECURSIVE Drain(_, _)
Drain(k, box) ==
    IF box = <<>> THEN k ELSE Drain(Process(k, Head(box)), Tail(box))

----------------------------------------------------------------------------
(* A running handler is the record x: k is the core, calls the calls made   *)
(* so far, err the exception raised ("none" while there is none).           *)

\* proxy.method(arg).get(): the call is made and its result awaited.
Get(x, op, arg, k2) ==
    [x EXCEPT !.calls = Append(@, [op |-> op, arg |-> arg, wait |-> TRUE]),
              !.k = k2]

Query(x, op, arg) == Get(x, op, arg, x.k)

\* proxy.method(arg) without .get(): the request is sent, nothing awaited.
Send(x, op, arg) ==
    [x EXCEPT !.calls = Append(@, [op |-> op, arg |-> arg, wait |-> FALSE])]

\* A bool as the argument of a call.
Bit(b) == IF b THEN 1 ELSE 0

Raise(x, exc) == [x EXCEPT !.err = exc]

\* int(seconds * 1000): the fraction of a millisecond is cut off.
IntMs(secs) ==
    IF secs >= 0 THEN secs \div 10 ELSE -((-secs) \div 10)

----------------------------------------------------------------------------
(* The command handlers *)

\* play_minus_one, but a stopped player always starts at position 0.
play_minus_one_first(x) ==
    LET x1 == Query(x, "get_state", 0)
    IN  IF x1.k.state = "playing" THEN x1
        ELSE IF x1.k.state = "paused"
        THEN Get(x1, "resume", 0, PlaybackResume(x1.k))
        ELSE LET x3 == Query(x1, "slice", 0)
                 tl == TracklistSlice(x3.k, 0, 1)
             IN  IF tl # <<>>
                 THEN Get(x3, "play", tl[1], PlaybackPlay(x3.k, tl[1]))
                 ELSE x3

\* play_minus_one, but a paused player is sent play for its current track.
play_minus_one_restart(x) ==
    LET x1 == Query(x, "get_state", 0)
        x2 == Query(x1, "get_current_tlid", 0)
        current == x2.k.current_tlid
        x3 == Query(x2, "slice", 0)
        tl == TracklistSlice(x3.k, 0, 1)
    IN  IF x1.k.state = "playing" THEN x1
        ELSE IF current # NoTrack
        THEN Get(x2, "play", current, PlaybackPlay(x2.k, current))
        ELSE IF tl # <<>>
        THEN Get(x3, "play", tl[1], PlaybackPlay(x3.k, tl[1]))
        ELSE x3

play_minus_one(x) ==
    LET x1 == Query(x, "get_state", 0)
    IN  IF x1.k.state = "playing" THEN x1
        ELSE IF x1.k.state = "paused"
        THEN Get(x1, "resume", 0, PlaybackResume(x1.k))
        ELSE LET x2 == Query(x1, "get_current_tlid", 0)
                 current == x2.k.current_tlid
                 x3 == Query(x2, "slice", 0)
                 tl == TracklistSlice(x3.k, 0, 1)
             IN  IF current # NoTrack
                 THEN Get(x2, "play", current, PlaybackPlay(x2.k, current))
                 ELSE IF tl # <<>>
                 THEN Get(x3, "play", tl[1], PlaybackPlay(x3.k, tl[1]))
                 ELSE x3

\* play, but without argument it asks for the current track by its tlid.
play_current(x, given, songpos) ==
    IF ~given
    THEN Get(x, "play", x.k.current_tlid,
             PlaybackPlay(x.k, x.k.current_tlid))
    ELSE IF songpos = -1 THEN play_minus_one(x)
    ELSE LET x1 == Query(x, "slice", songpos)
             tl == TracklistSlice(x1.k, songpos, songpos + 1)
         IN  IF tl = <<>> THEN Raise(x1, "MpdArgError")
             ELSE Get(x1, "play", tl[1], PlaybackPlay(x1.k, tl[1]))

\* play [SONGPOS]; given is FALSE when the argument is left out.
play(x, given, songpos) ==
    IF ~given THEN Get(x, "play", NoTrack, PlaybackPlay(x.k, NoTrack))
    ELSE IF songpos = -1 THEN play_minus_one(x)
    ELSE LET x1 == Query(x, "slice", songpos)
             tl == TracklistSlice(x1.k, songpos, songpos + 1)
         IN  IF tl = <<>> THEN Raise(x1, "MpdArgError")
             ELSE Get(x1, "play", tl[1], PlaybackPlay(x1.k, tl[1]))

\* playid, but the tlid is not looked up before it is played.
playid_unchecked(x, tlid) ==
    IF tlid = -1 THEN play_minus_one(x)
    ELSE Get(x, "play", tlid, PlaybackPlay(x.k, tlid))

playid(x, tlid) ==
    IF tlid = -1 THEN play_minus_one(x)
    ELSE LET x1 == Query(x, "filter", tlid)
             tl == TracklistFilter(x1.k, tlid)
         IN  IF tl = <<>> THEN Raise(x1, "MpdNoExistError")
             ELSE Get(x1, "play", tl[1], PlaybackPlay(x1.k, tl[1]))

\* pause, but without argument everything that is not playing is resumed.
pause_blind(x, arg) ==
    IF arg = "None"
    THEN LET x1 == Query(x, "get_state", 0)
         IN  IF x1.k.state = "playing"
             THEN Get(x1, "pause", 0, PlaybackPause(x1.k))
             ELSE Get(x1, "resume", 0, PlaybackResume(x1.k))
    ELSE IF arg = "True" THEN Get(x, "pause", 0, PlaybackPause(x.k))
    ELSE Get(x, "resume", 0, PlaybackResume(x.k))

\* pause, but with the two cases of the argument taken for each other.
pause_swapped(x, arg) ==
    IF arg = "None"
    THEN LET x1 == Query(x, "get_state", 0)
         IN  IF x1.k.state = "playing"
             THEN Get(x1, "pause", 0, PlaybackPause(x1.k))
             ELSE IF x1.k.state = "paused"
             THEN Get(x1, "resume", 0, PlaybackResume(x1.k))
             ELSE x1
    ELSE IF arg = "True" THEN Get(x, "resume", 0, PlaybackResume(x.k))
    ELSE Get(x, "pause", 0, PlaybackPause(x.k))

pause(x, arg) ==
    IF arg = "None"
    THEN LET x1 == Query(x, "get_state", 0)
         IN  IF x1.k.state = "playing"
             THEN Get(x1, "pause", 0, PlaybackPause(x1.k))
             ELSE IF x1.k.state = "paused"
             THEN Get(x1, "resume", 0, PlaybackResume(x1.k))
             ELSE x1
    ELSE IF arg = "True" THEN Get(x, "pause", 0, PlaybackPause(x.k))
    ELSE Get(x, "resume", 0, PlaybackResume(x.k))

\* seek, but the seek call is made before the track is switched.
seek_then_play(x, songpos, seconds) ==
    LET x1 == Query(x, "get_current_tl_track", 0)
        x2 == Query(x1, "index", x1.k.current_tlid)
        x3 == Get(x2, "seek", IntMs(seconds),
                  PlaybackSeek(x2.k, IntMs(seconds)))
    IN  IF TracklistIndex(x2.k, x2.k.current_tlid) # songpos
        THEN play(x3, TRUE, songpos)
        ELSE x3

seek(x, songpos, seconds) ==
    LET x1 == Query(x, "get_current_tl_track", 0)
        x2 == Query(x1, "index", x1.k.current_tlid)
        x3 == IF TracklistIndex(x2.k, x2.k.current_tlid) # songpos
              THEN play(x2, TRUE, songpos)
              ELSE x2
    IN  IF x3.err # "none" THEN x3
        ELSE Get(x3, "seek", IntMs(seconds),
                 PlaybackSeek(x3.k, IntMs(seconds)))

\* seekid, but the seek call is made whether or not playid raised.
seekid_swallow(x, tlid, seconds) ==
    LET x1 == Query(x, "get_current_tl_track", 0)
        x2 == IF x1.k.current_tlid = NoTrack \/ x1.k.current_tlid # tlid
              THEN playid(x1, tlid)
              ELSE x1
    IN  Get(x2, "seek", IntMs(seconds), PlaybackSeek(x2.k, IntMs(seconds)))

seekid(x, tlid, seconds) ==
    LET x1 == Query(x, "get_current_tl_track", 0)
        x2 == IF x1.k.current_tlid = NoTrack \/ x1.k.current_tlid # tlid
              THEN playid(x1, tlid)
              ELSE x1
    IN  IF x2.err # "none" THEN x2
        ELSE Get(x2, "seek", IntMs(seconds),
                 PlaybackSeek(x2.k, IntMs(seconds)))

\* protocol.FLOAT of a time string: the sign, if any, and the digits.
FLOAT(sign, digits) == IF sign = "-" THEN -digits ELSE digits

\* protocol.UFLOAT of a time string without a sign.
UFLOAT(digits) == digits

\* seekcur, but a signed time is not added to the current position.
seekcur_absolute(x, sign, digits) ==
    IF sign \in {"+", "-"}
    THEN LET x1 == Query(x, "get_time_position", 0)
             position == IntMs(FLOAT(sign, digits))
         IN  Get(x1, "seek", position, PlaybackSeek(x1.k, position))
    ELSE LET position == IntMs(UFLOAT(digits))
         IN  Get(x, "seek", position, PlaybackSeek(x.k, position))

\* seekcur TIME; the string TIME is its sign ("+", "-" or "") and digits.
seekcur(x, sign, digits) ==
    IF sign \in {"+", "-"}
    THEN LET x1 == Query(x, "get_time_position", 0)
             position == x1.k.time_position + IntMs(FLOAT(sign, digits))
         IN  Get(x1, "seek", position, PlaybackSeek(x1.k, position))
    ELSE LET position == IntMs(UFLOAT(digits))
         IN  Get(x, "seek", position, PlaybackSeek(x.k, position))

\* consume, but the random mode is set.
consume_random(x, value) == Send(x, "set_random", Bit(value))

consume(x, value) == Send(x, "set_consume", Bit(value))

random(x, value) == Send(x, "set_random", Bit(value))

repeat(x, value) == Send(x, "set_repeat", Bit(value))

single(x, value) == Send(x, "set_single", Bit(value))

\* next_, but playback is started again after it.
next_play(x, pick) ==
    LET x1 == Get(x, "next", 0, PlaybackNext(x.k, pick))
    IN  Get(x1, "play", NoTrack, PlaybackPlay(x1.k, NoTrack))

\* previous, but the request is only sent.
previous_loose(x) == Send(x, "previous", 0)

previous(x) == Get(x, "previous", 0, PlaybackPrevious(x.k))

\* next; pick is the draw of the core's random order.
next_(x, pick) == Get(x, "next", 0, PlaybackNext(x.k, pick))

NoVolume == -1      \* stands for None where a volume is expected

\* core.mixer.get_volume(): the volume, None when the mixer cannot tell.
MixerGetVolume(k, readable) == IF readable THEN k.volume ELSE NoVolume

\* core.mixer.set_volume(value): True and the volume set, or False.
MixerSetVolume(k, value, accept) ==
    IF accept THEN [k EXCEPT !.volume = value] ELSE k

\* setvol, but only the upper end is clamped.
setvol_upper(x, vol, accept) ==
    LET value == Min(vol, 100)
        x1 == Get(x, "set_volume", value, MixerSetVolume(x.k, value, accept))
    IN  IF ~accept THEN Raise(x1, "MpdSystemError") ELSE x1

\* setvol VOL; accept is the answer of the mixer.
setvol(x, vol, accept) ==
    LET value == Min(Max(0, vol), 100)
        x1 == Get(x, "set_volume", value, MixerSetVolume(x.k, value, accept))
    IN  IF ~accept THEN Raise(x1, "MpdSystemError") ELSE x1

min_volume_change == -100
max_volume_change == 100
min_volume == 0
max_volume == 100

\* What the first half of volume hands on: old_volume is the volume read.
Read(x, old_volume) ==
    [k |-> x.k, calls |-> x.calls, err |-> x.err, old_volume |-> old_volume]

\* volume_read, but the change is looked at after the volume is read.
volume_read_late(x, change, readable) ==
    LET x1 == Query(x, "get_volume", 0)
        old_volume == MixerGetVolume(x1.k, readable)
    IN  IF old_volume = NoVolume
        THEN Read(Raise(x1, "MpdSystemError"), NoVolume)
        ELSE IF change < min_volume_change \/ change > max_volume_change
        THEN Read(Raise(x1, "MpdArgError"), NoVolume)
        ELSE Read(x1, old_volume)

\* volume_read, but a volume of None is not looked for.
volume_read_blind(x, change, readable) ==
    IF change < min_volume_change \/ change > max_volume_change
    THEN Read(Raise(x, "MpdArgError"), NoVolume)
    ELSE LET x1 == Query(x, "get_volume", 0)
         IN  Read(x1, MixerGetVolume(x1.k, readable))

\* volume CHANGE, up to where the volume has been read; readable tells
\* whether the mixer can tell its volume.
volume_read(x, change, readable) ==
    IF change < min_volume_change \/ change > max_volume_change
    THEN Read(Raise(x, "MpdArgError"), NoVolume)
    ELSE LET x1 == Query(x, "get_volume", 0)
             old_volume == MixerGetVolume(x1.k, readable)
         IN  IF old_volume = NoVolume
             THEN Read(Raise(x1, "MpdSystemError"), NoVolume)
             ELSE Read(x1, old_volume)

\* volume_write, but the new volume is not clamped.
volume_write_raw(x, change, old_volume, accept) ==
    LET new_volume == old_volume + change
        x1 == Get(x, "set_volume", new_volume,
                  MixerSetVolume(x.k, new_volume, accept))
    IN  IF ~accept THEN Raise(x1, "MpdSystemError") ELSE x1

\* volume_write, but from the volume the mixer has now.
volume_write_fresh(x, change, old_volume, accept) ==
    LET new_volume == Min(Max(min_volume, x.k.volume + change), max_volume)
        x1 == Get(x, "set_volume", new_volume,
                  MixerSetVolume(x.k, new_volume, accept))
    IN  IF ~accept THEN Raise(x1, "MpdSystemError") ELSE x1

\* volume CHANGE, from the volume read on; accept is the mixer's answer.
volume_write(x, change, old_volume, accept) ==
    LET new_volume == Min(Max(min_volume, old_volume + change), max_volume)
        x1 == Get(x, "set_volume", new_volume,
                  MixerSetVolume(x.k, new_volume, accept))
    IN  IF ~accept THEN Raise(x1, "MpdSystemError") ELSE x1

----------------------------------------------------------------------------
(* The session: one command at a time, each answered before the next *)

Core ==
    [state |-> state, current_tlid |-> current_tlid,
     time_position |-> time_position, tl_tracks |-> tl_tracks,
     modes |-> modes, volume |-> volume]

Command(name, given, n, sign, t) ==
    [name |-> name, given |-> given, n |-> n, sign |-> sign, t |-> t]

\* The handler starts; its first awaited call finds the mailbox worked off.
Start == [k |-> Drain(Core, inbox), calls |-> <<>>, err |-> "none"]

\* The handler returns or raises: x is what it did, the reply is OK or the
\* error of the exception.
\* The handler has come as far as x; r is the reply, "none" while the
\* handler is still running, and j the volume command under way.
Settle(c, x, j, r) ==
    /\ cmd' = c
    /\ seen' = Start.k
    /\ state' = x.k.state
    /\ current_tlid' = x.k.current_tlid
    /\ time_position' = x.k.time_position
    /\ tl_tracks' = x.k.tl_tracks
    /\ modes' = x.k.modes
    /\ volume' = x.k.volume
    /\ job' = j
    /\ inbox' = <<>>
    /\ calls' = x.calls
    /\ reply' = r

FinishJob(c, x, j) ==
    Settle(c, x, j, IF x.err = "none" THEN "OK" ELSE x.err)

Finish(c, x) == FinishJob(c, x, job)

\* No volume command is under way.
Idle ==
    [pc |-> "idle", change |-> 0, old |-> 0, before |-> 0, after |-> 0,
     accept |-> FALSE]

AllOff ==
    [repeat |-> FALSE, random |-> FALSE, single |-> FALSE, consume |-> FALSE]

Init ==
    /\ tl_tracks \in TrackLists
    /\ state = "stopped"
    /\ current_tlid = NoTrack
    /\ time_position = 0
    /\ modes = AllOff
    /\ volume = 0
    /\ job = Idle
    /\ inbox = <<>>
    /\ cmd = Command("none", FALSE, 0, "", 0)
    /\ seen = Core
    /\ calls = <<>>
    /\ reply = "none"

Play ==
    \/ Finish(Command("play", FALSE, 0, "", 0), play(Start, FALSE, 0))
    \/ \E songpos \in SongPositions :
          Finish(Command("play", TRUE, songpos, "", 0),
                 play(Start, TRUE, songpos))

PlayId ==
    \E tlid \in SongIds :
        Finish(Command("playid", TRUE, tlid, "", 0), playid(Start, tlid))

Pause ==
    \E arg \in PauseArgs :
        Finish(Command("pause", arg # "None", 0, arg, 0), pause(Start, arg))

\* stop: the request is sent and not awaited.
Stop ==
    /\ Len(inbox) < MaxInbox
    /\ cmd' = Command("stop", FALSE, 0, "", 0)
    /\ seen' = Core
    /\ inbox' = Append(inbox, [op |-> "stop", arg |-> 0])
    /\ calls' = <<[op |-> "stop", arg |-> 0, wait |-> FALSE]>>
    /\ reply' = "OK"
    /\ UNCHANGED <<tl_tracks, state, current_tlid, time_position, modes,
                   volume, job>>

Seek ==
    \E songpos \in SeekPositions, seconds \in SeekSeconds :
        /\ IntMs(seconds) <= TrackLength
        /\ Finish(Command("seek", TRUE, songpos, "", seconds),
                  seek(Start, songpos, seconds))

SeekId ==
    \E tlid \in SeekIds, seconds \in SeekSeconds :
        /\ IntMs(seconds) <= TrackLength
        /\ Finish(Command("seekid", TRUE, tlid, "", seconds),
                  seekid(Start, tlid, seconds))

SeekCur ==
    \/ \E sign \in {"+", "-"}, digits \in SeekOffsets :
          /\ Start.k.time_position + IntMs(FLOAT(sign, digits)) <= TrackLength
          /\ Finish(Command("seekcur", TRUE, 0, sign, digits),
                    seekcur(Start, sign, digits))
    \/ \E digits \in SeekSeconds :
          /\ IntMs(digits) <= TrackLength
          /\ Finish(Command("seekcur", TRUE, 0, "", digits),
                    seekcur(Start, "", digits))

\* The core actor takes the next request out of its mailbox.
CoreProcess ==
    /\ inbox # <<>>
    /\ LET k == Process(Core, Head(inbox))
       IN  /\ state' = k.state
           /\ current_tlid' = k.current_tlid
           /\ time_position' = k.time_position
           /\ tl_tracks' = k.tl_tracks
           /\ modes' = k.modes
           /\ volume' = k.volume
    /\ inbox' = Tail(inbox)
    /\ UNCHANGED <<job, cmd, seen, calls, reply>>

Next ==
    \/ Play
    \/ PlayId
    \/ Pause
    \/ Stop
    \/ Seek
    \/ SeekId
    \/ SeekCur
    \/ CoreProcess

Spec == Init /\ [][Next]_vars

TypeOK ==
    /\ tl_tracks \in TrackLists
    /\ state \in {"stopped", "playing", "paused"}
    /\ current_tlid \in Range(tl_tracks) \cup {NoTrack}
    /\ time_position \in 0..TrackLength
    /\ Len(inbox) <= MaxInbox
    /\ modes \in [{"repeat", "random", "single", "consume"} -> BOOLEAN]
    /\ volume \in 0..100
    /\ job.pc \in {"idle", "read"}
    /\ reply \in {"none", "OK", "MpdArgError", "MpdNoExistError",
                  "MpdSystemError"}

----------------------------------------------------------------------------
(* What the last command did *)

Control == {"play", "pause", "resume", "stop", "seek"}

\* The play, pause, resume, stop and seek calls of the last command.
Issued == SelectSeq(calls, LAMBDA c : c.op \in Control)

CallsTo(op) == SelectSeq(calls, LAMBDA c : c.op = op)

Awaited(op, arg) == [op |-> op, arg |-> arg, wait |-> TRUE]

\* The last command left playback state, current track and position alone.
Untouched ==
    /\ state = seen.state
    /\ current_tlid = seen.current_tlid
    /\ time_position = seen.time_position

MinusOne ==
    \/ cmd.name = "play" /\ cmd.given /\ cmd.n = -1
    \/ cmd.name = "playid" /\ cmd.n = -1

\* C1: play(-1) and playid(-1) on a stopped player start the current track
\* if one is set (one play call with exactly that tlid), else the entry at
\* position 0 if the tracklist is not empty, else make no play, pause,
\* resume, stop or seek call; the command succeeds in each case.
C1_MinusOneStopped ==
    (MinusOne /\ seen.state = "stopped") =>
        /\ reply = "OK"
        /\ Issued =
             IF seen.current_tlid # NoTrack
             THEN <<Awaited("play", seen.current_tlid)>>
             ELSE IF seen.tl_tracks # <<>>
             THEN <<Awaited("play", seen.tl_tracks[1])>>
             ELSE <<>>

\* playid(-1) stopped on a track that is not the first of the tracklist.
C1_Witness ==
    /\ cmd.name = "playid" /\ cmd.n = -1
    /\ seen.state = "stopped"
    /\ seen.current_tlid # NoTrack
    /\ seen.current_tlid # seen.tl_tracks[1]
    /\ state = "playing" /\ current_tlid = seen.current_tlid

\* C2: play(-1) and playid(-1) make no play, pause, resume, stop or seek
\* call on a playing player, and exactly one resume call and no play call on
\* a paused one; current track and time position stay as they were.
C2_MinusOneActive ==
    /\ (MinusOne /\ seen.state = "playing") =>
           Issued = <<>> /\ Untouched /\ reply = "OK"
    /\ (MinusOne /\ seen.state = "paused") =>
           /\ Issued = <<Awaited("resume", 0)>>
           /\ current_tlid = seen.current_tlid
           /\ time_position = seen.time_position
           /\ reply = "OK"

\* play(-1) resumed a track paused in its middle.
C2_Witness ==
    /\ cmd.name = "play" /\ cmd.given /\ cmd.n = -1
    /\ seen.state = "paused" /\ seen.time_position > 0
    /\ state = "playing"

PlayNoArg == cmd.name = "play" /\ ~cmd.given

\* C3 as stated: play without argument on a playing or paused player leaves
\* it playing the same track at the position it had.
C3_AsStated ==
    (PlayNoArg /\ seen.state \in {"playing", "paused"}) =>
        /\ state = "playing"
        /\ current_tlid = seen.current_tlid
        /\ time_position = seen.time_position

\* C3: play without argument on a player paused on a track makes one play
\* call without a track and leaves the player playing the same track at the
\* position it had.
C3_PlayResumesPaused ==
    (PlayNoArg /\ seen.state = "paused" /\ seen.current_tlid # NoTrack) =>
        /\ Issued = <<Awaited("play", NoTrack)>>
        /\ state = "playing"
        /\ current_tlid = seen.current_tlid
        /\ time_position = seen.time_position
        /\ reply = "OK"

\* play without argument resumed a track paused in its middle, and that
\* track is not the first of the tracklist.
C3_Witness ==
    /\ PlayNoArg
    /\ seen.state = "paused" /\ seen.time_position > 0
    /\ seen.current_tlid # NoTrack
    /\ seen.current_tlid # seen.tl_tracks[1]
    /\ state = "playing"

\* C4: play(p) for p other than -1 fails with an argument error, makes no
\* play call and leaves state and current track alone when p is not a
\* position of the tracklist (p < 0 or p >= N); otherwise it makes one play
\* call with the tlid of the entry at position p.
C4_PlayPosition ==
    (cmd.name = "play" /\ cmd.given /\ cmd.n # -1) =>
        IF cmd.n < 0 \/ cmd.n >= Len(seen.tl_tracks)
        THEN /\ reply = "MpdArgError"
             /\ Issued = <<>>
             /\ state = seen.state
             /\ current_tlid = seen.current_tlid
        ELSE /\ Issued = <<Awaited("play", seen.tl_tracks[cmd.n + 1])>>
             /\ reply = "OK"

\* C5: playid(tlid) for tlid other than -1 fails with a not-found error,
\* makes no play call and leaves state and current track alone when no
\* entry has that tlid; otherwise it makes one play call with that tlid.
C5_PlayId ==
    (cmd.name = "playid" /\ cmd.n # -1) =>
        IF cmd.n \notin Range(seen.tl_tracks)
        THEN /\ reply = "MpdNoExistError"
             /\ Issued = <<>>
             /\ state = seen.state
             /\ current_tlid = seen.current_tlid
        ELSE /\ Issued = <<Awaited("play", cmd.n)>>
             /\ reply = "OK"

\* playid of an absent tlid failed while another track was playing.
C5_Witness ==
    /\ cmd.name = "playid" /\ cmd.n # -1
    /\ reply = "MpdNoExistError"
    /\ seen.state = "playing"
    /\ seen.tl_tracks # <<>>

Toggle == cmd.name = "pause" /\ cmd.sign = "None"

\* C6: pause without argument goes by the state it reads first: playing
\* gives exactly one pause call, paused exactly one resume call, stopped no
\* pause or resume call and a player still stopped; and a second pause
\* without argument right after one that found the player playing or paused
\* puts the player back as the first one found it.
C6_PauseToggle ==
    [][/\ Toggle' =>
           /\ seen'.state = "playing" => Issued' = <<Awaited("pause", 0)>>
           /\ seen'.state = "paused" => Issued' = <<Awaited("resume", 0)>>
           /\ seen'.state = "stopped" => Issued' = <<>> /\ state' = "stopped"
           /\ reply' = "OK"
       /\ (/\ Toggle /\ Toggle'
           /\ seen.state \in {"playing", "paused"}
           /\ seen' = Core) =>
              /\ state' = seen.state
              /\ current_tlid' = seen.current_tlid
              /\ time_position' = seen.time_position]_vars

\* A pause without argument resumed a track paused in its middle.
C6_Witness ==
    /\ Toggle
    /\ seen.state = "paused" /\ seen.time_position > 0
    /\ state = "playing" /\ time_position = seen.time_position

PauseOn == cmd.name = "pause" /\ cmd.sign = "True"
PauseOff == cmd.name = "pause" /\ cmd.sign = "False"

\* C7 as stated: pause(true) changes nothing unless the player is playing,
\* pause(false) changes nothing unless it is paused.
C7_AsStated ==
    /\ (PauseOn /\ seen.state # "playing") => Untouched
    /\ (PauseOff /\ seen.state # "paused") => Untouched

\* C7: pause(true) makes one pause call and pause(false) one resume call.
\* pause(true) changes nothing on a paused player and pause(false) nothing
\* on a player that is not paused; pause(true) on a stopped player leaves it
\* paused, with current track and time position as they were.
C7_PauseOnOff ==
    /\ PauseOn => Issued = <<Awaited("pause", 0)>>
    /\ PauseOff => Issued = <<Awaited("resume", 0)>>
    /\ (PauseOn /\ seen.state = "paused") => Untouched
    /\ (PauseOff /\ seen.state # "paused") => Untouched
    /\ (PauseOn /\ seen.state = "stopped") =>
           /\ state = "paused"
           /\ current_tlid = seen.current_tlid
           /\ time_position = seen.time_position

\* pause(false) came to a player playing in the middle of a track.
C7_Witness ==
    /\ PauseOff
    /\ seen.state = "playing" /\ seen.time_position > 0
    /\ state = "playing"

\* The tlid seek or seekid asks for, NoTrack if the tracklist has none.
Wanted ==
    IF cmd.name = "seek"
    THEN IF cmd.n < Len(seen.tl_tracks) THEN seen.tl_tracks[cmd.n + 1]
         ELSE NoTrack
    ELSE IF cmd.n \in Range(seen.tl_tracks) THEN cmd.n ELSE NoTrack

\* C8: a seek or seekid that succeeds makes its play call, awaited, before
\* its seek call when the track loaded is not the one asked for (or none is
\* loaded), and then the track asked for is current at the seek target;
\* when the track asked for is loaded already it makes the seek call and no
\* play call. There is exactly one seek call and it is the last call.
C8_SeekSwitchesFirst ==
    (cmd.name \in {"seek", "seekid"} /\ reply = "OK") =>
        /\ Issued =
             IF seen.current_tlid = NoTrack \/ seen.current_tlid # Wanted
             THEN <<Awaited("play", Wanted), Awaited("seek", IntMs(cmd.t))>>
             ELSE <<Awaited("seek", IntMs(cmd.t))>>
        /\ calls[Len(calls)] = Awaited("seek", IntMs(cmd.t))
        /\ current_tlid = Wanted
        /\ time_position = IntMs(cmd.t)

\* seek(2, 5.0) with the track at position 0 loaded.
C8_Witness ==
    /\ cmd.name = "seek" /\ cmd.n = 2 /\ cmd.t = 50000
    /\ reply = "OK"
    /\ seen.current_tlid # NoTrack
    /\ seen.current_tlid = seen.tl_tracks[1]
    /\ current_tlid = seen.tl_tracks[3]
    /\ time_position = 5000

\* C9: when the track asked for does not exist (seek: no such position,
\* seekid: no such tlid) no seek call is made, the time position stays, and
\* the reply is the one error: an argument error for seek, a not-found
\* error for seekid.
C9_SeekAborts ==
    (cmd.name \in {"seek", "seekid"} /\ Wanted = NoTrack) =>
        /\ CallsTo("seek") = <<>>
        /\ time_position = seen.time_position
        /\ reply = IF cmd.name = "seek" THEN "MpdArgError"
                   ELSE "MpdNoExistError"

\* seekid of an absent tlid failed in the middle of a playing track.
C9_Witness ==
    /\ cmd.name = "seekid" /\ cmd.t > 0
    /\ reply = "MpdNoExistError"
    /\ seen.state = "playing" /\ seen.time_position > 0
    /\ time_position = seen.time_position

\* The seek target seekcur has to ask for.
SeekCurTarget ==
    IF cmd.sign = "+" THEN seen.time_position + cmd.t \div 10
    ELSE IF cmd.sign = "-" THEN seen.time_position - cmd.t \div 10
    ELSE cmd.t \div 10

SeekCurCalls ==
    /\ Issued = <<Awaited("seek", SeekCurTarget)>>
    /\ CallsTo("slice") = <<>> /\ CallsTo("filter") = <<>>
    /\ cmd.sign = "" => CallsTo("get_time_position") = <<>>
    /\ reply = "OK"

\* C10 as stated: seekcur makes exactly one seek call, to the position read
\* plus the signed offset (not clamped) or to the absolute time without
\* reading the position, makes no play call, and the current track stays.
C10_AsStated ==
    cmd.name = "seekcur" =>
        SeekCurCalls /\ current_tlid = seen.current_tlid

\* C10: seekcur makes exactly one seek call, to the position read plus the
\* signed offset (not clamped) or to the absolute time without reading the
\* position, and makes no play call; the current track stays when a track
\* is loaded and the target lies inside it.
C10_SeekCur ==
    cmd.name = "seekcur" =>
        /\ SeekCurCalls
        /\ seen.current_tlid # NoTrack => current_tlid = seen.current_tlid

\* seekcur "-5.0" at position 0: the target -5000 goes out as it is.
C10_Witness ==
    /\ cmd.name = "seekcur" /\ cmd.sign = "-"
    /\ seen.state = "playing" /\ seen.time_position = 0
    /\ Issued = <<Awaited("seek", -5000)>>
    /\ current_tlid = seen.current_tlid

----------------------------------------------------------------------------
(* Seek times with a fraction of a millisecond *)

MaxFine == 16       \* longest fine seek time, in 1/10000 s

FineSeconds == 0..MaxFine

SeekFine ==
    \E songpos \in SeekPositions, seconds \in FineSeconds :
        Finish(Command("seek", TRUE, songpos, "", seconds),
               seek(Start, songpos, seconds))

SeekIdFine ==
    \E tlid \in SeekIds, seconds \in FineSeconds :
        Finish(Command("seekid", TRUE, tlid, "", seconds),
               seekid(Start, tlid, seconds))

SeekCurFine ==
    \E sign \in {"+", "-", ""}, digits \in FineSeconds :
        /\ Start.k.time_position + IntMs(digits) <= IntMs(MaxFine)
        /\ Finish(Command("seekcur", TRUE, 0, sign, digits),
                  seekcur(Start, sign, digits))

NextMs == SeekFine \/ SeekIdFine \/ SeekCurFine

SpecMs == Init /\ [][NextMs]_vars

\* round(seconds * 1000): the nearest integer, a tie going to the even one.
RoundMs(secs) ==
    LET a == IF secs >= 0 THEN secs ELSE -secs
        q == a \div 10
        r == a % 10
        m == IF r > 5 \/ (r = 5 /\ q % 2 = 1) THEN q + 1 ELSE q
    IN  IF secs >= 0 THEN m ELSE -m

\* C11: the milliseconds every seek, seekid and seekcur passes to the
\* core's seek are round(seconds * 1000); for seekcur with a sign, the
\* position read plus round(offset * 1000).
C11_SeekRounds ==
    \A i \in 1..Len(calls) :
        (cmd.name \in {"seek", "seekid", "seekcur"} /\ calls[i].op = "seek") =>
            calls[i].arg =
                IF cmd.name = "seekcur" /\ cmd.sign = "+"
                THEN seen.time_position + RoundMs(cmd.t)
                ELSE IF cmd.name = "seekcur" /\ cmd.sign = "-"
                THEN seen.time_position + RoundMs(-cmd.t)
                ELSE RoundMs(cmd.t)

----------------------------------------------------------------------------
(* The volume commands, with other sessions at the same mixer *)

VolumeArgs == {-10, 0, 5, 50, 100, 150}                 \* setvol
ChangeArgs == {-200, -101, -100, -5, 50, 100, 101}      \* volume
OtherVolumes == {20, 80}        \* what another session sets
StartVolumes == {0, 80, 100}    \* the mixer before the first command

InitVol ==
    /\ tl_tracks = <<>>
    /\ state = "stopped"
    /\ current_tlid = NoTrack
    /\ time_position = 0
    /\ modes = AllOff
    /\ volume \in StartVolumes
    /\ job = Idle
    /\ inbox = <<>>
    /\ cmd = Command("none", FALSE, 0, "", 0)
    /\ seen = Core
    /\ calls = <<>>
    /\ reply = "none"

SetVol ==
    /\ job.pc = "idle"
    /\ \E vol \in VolumeArgs, accept \in BOOLEAN :
          LET x == setvol(Start, vol, accept)
          IN  FinishJob(Command("setvol", TRUE, vol, "", 0), x,
                        [pc |-> "idle", change |-> 0, old |-> NoVolume,
                         before |-> Start.k.volume, after |-> x.k.volume,
                         accept |-> accept])

\* volume up to the return of get_volume().get(), or to its first raise.
VolumeBegin ==
    /\ job.pc = "idle"
    /\ \E change \in ChangeArgs, readable \in BOOLEAN :
          LET x == volume_read(Start, change, readable)
              j == [pc |-> IF x.err = "none" THEN "read" ELSE "idle",
                    change |-> change, old |-> x.old_volume,
                    before |-> x.k.volume, after |-> x.k.volume,
                    accept |-> FALSE]
          IN  Settle(Command("volume", TRUE, change, "", 0), x, j,
                     IF x.err = "none" THEN "none" ELSE x.err)

\* volume from there to its end.
VolumeEnd ==
    /\ job.pc = "read"
    /\ \E accept \in BOOLEAN :
          LET x0 == [k |-> Drain(Core, inbox), calls |-> calls,
                     err |-> "none"]
              x == volume_write(x0, job.change, job.old, accept)
          IN  /\ state' = x.k.state
              /\ current_tlid' = x.k.current_tlid
              /\ time_position' = x.k.time_position
              /\ tl_tracks' = x.k.tl_tracks
              /\ modes' = x.k.modes
              /\ volume' = x.k.volume
              /\ job' = [job EXCEPT !.pc = "idle", !.before = x0.k.volume,
                                    !.after = x.k.volume, !.accept = accept]
              /\ inbox' = <<>>
              /\ calls' = x.calls
              /\ reply' = IF x.err = "none" THEN "OK" ELSE x.err
              /\ UNCHANGED <<cmd, seen>>

\* Another session has the mixer set to another volume.
OtherSession ==
    /\ \E v \in OtherVolumes : v # volume /\ volume' = v
    /\ UNCHANGED <<tl_tracks, state, current_tlid, time_position, modes, job,
                   inbox, cmd, seen, calls, reply>>

NextVol == SetVol \/ VolumeBegin \/ VolumeEnd \/ OtherSession

SpecVol == InitVol /\ [][NextVol]_vars

Clamp(v) == IF v < 0 THEN 0 ELSE IF v > 100 THEN 100 ELSE v

\* C12: setvol(v) makes exactly one core call, set_volume with v clamped to
\* 0..100, so it never reads the volume; it never fails with an argument
\* error, replies OK when the mixer accepts (the volume is then the clamped
\* value) and fails with a system error when the mixer rejects.
C12_SetVol ==
    cmd.name = "setvol" =>
        /\ calls = <<Awaited("set_volume", Clamp(cmd.n))>>
        /\ job.accept => reply = "OK" /\ job.after = Clamp(cmd.n)
        /\ ~job.accept => reply = "MpdSystemError" /\ job.after = job.before

\* setvol 150 was accepted and set the volume to 100.
C12_Witness ==
    /\ cmd.name = "setvol" /\ cmd.n = 150
    /\ reply = "OK"
    /\ job.before # 100 /\ job.after = 100 /\ volume = 100

InRange == -100 <= cmd.n /\ cmd.n <= 100

\* C13: volume(change) with change outside -100..100 fails with an
\* argument error without any call to the mixer, and the volume is the same
\* when the command returns; -100 and 100 are not refused.
C13_VolumeRange ==
    cmd.name = "volume" =>
        /\ ~InRange =>
              /\ reply = "MpdArgError"
              /\ calls = <<>>
              /\ job.pc = "idle"
              /\ job.after = seen.volume
        /\ InRange => reply # "MpdArgError"

\* volume -200 was refused with the mixer at 80.
C13_Witness ==
    /\ cmd.name = "volume" /\ cmd.n = -200
    /\ reply = "MpdArgError"
    /\ seen.volume = 80 /\ job.after = 80

\* C14: volume(change) with change in -100..100 reads the volume once; if
\* it cannot be read the command fails with a system error and set_volume
\* is not called; else it calls set_volume once, with the volume read plus
\* change clamped to 0..100, and replies OK when the mixer accepts and
\* fails with a system error when it rejects.
C14_VolumeChange ==
    (cmd.name = "volume" /\ InRange) =>
        /\ CallsTo("get_volume") = <<Awaited("get_volume", 0)>>
        /\ job.old \in {NoVolume, seen.volume}
        /\ job.old = NoVolume =>
              /\ reply = "MpdSystemError"
              /\ CallsTo("set_volume") = <<>>
        /\ (job.old # NoVolume /\ job.pc = "read") =>
              /\ reply = "none"
              /\ CallsTo("set_volume") = <<>>
        /\ (job.old # NoVolume /\ job.pc = "idle") =>
              /\ CallsTo("set_volume") =
                    <<Awaited("set_volume", Clamp(job.old + cmd.n))>>
              /\ reply = IF job.accept THEN "OK" ELSE "MpdSystemError"

\* volume 50 with the mixer at 80 asked for 100 and got it.
C14_Witness ==
    /\ cmd.name = "volume" /\ cmd.n = 50
    /\ job.old = 80 /\ job.pc = "idle"
    /\ reply = "OK" /\ job.after = 100

\* C19: volume(change) writes the volume it read plus change, clamped,
\* whatever another session has set in between, with one read and one
\* write and no second try.
C19_VolumeWritesFromRead ==
    (cmd.name = "volume" /\ job.pc = "idle" /\ reply = "OK") =>
        /\ job.after = Clamp(job.old + cmd.n)
        /\ Len(CallsTo("get_volume")) = 1
        /\ Len(CallsTo("set_volume")) = 1

\* The update of another session is lost: the volume written is not the
\* one that was there at the write plus change.
C19_Witness ==
    /\ cmd.name = "volume" /\ job.pc = "idle" /\ reply = "OK"
    /\ job.before # job.old
    /\ job.after = Clamp(job.old + cmd.n)
    /\ job.after # Clamp(job.before + cmd.n)

\* C20: every value passed to set_volume lies in 0..100, and a setvol or
\* volume that ends with an argument error, or with the error of a volume
\* that cannot be read, returns with the volume it found.
C20_VolumeSafe ==
    /\ \A i \in 1..Len(calls) :
          calls[i].op = "set_volume" => calls[i].arg \in 0..100
    /\ (cmd.name \in {"setvol", "volume"} /\ reply = "MpdArgError") =>
          job.after = seen.volume
    /\ (cmd.name = "volume" /\ reply = "MpdSystemError"
          /\ job.old = NoVolume) =>
          job.after = seen.volume /\ CallsTo("set_volume") = <<>>

\* volume -100 with the mixer at 80 asked for 0, not for -20.
C20_Witness ==
    /\ cmd.name = "volume" /\ cmd.n = -100
    /\ job.old = 80 /\ job.pc = "idle"
    /\ calls[Len(calls)] = Awaited("set_volume", 0)

----------------------------------------------------------------------------
(* Modes, next and previous *)

NavTimes == {14999, 15000}      \* positions a track is found at

Booleans4 == [{"repeat", "random", "single", "consume"} -> BOOLEAN]

\* The player as a session can find it: stopped at position 0, playing a
\* track, or paused, in any modes.
InitNav ==
    /\ tl_tracks \in TrackLists
    /\ \E m \in Booleans4 :
          modes = [repeat |-> m["repeat"], random |-> m["random"],
                   single |-> m["single"], consume |-> m["consume"]]
    /\ state \in {"stopped", "playing", "paused"}
    /\ current_tlid \in Range(tl_tracks) \cup {NoTrack}
    /\ time_position \in NavTimes \cup {0}
    /\ state = "playing" => current_tlid # NoTrack
    /\ (state = "stopped" \/ current_tlid = NoTrack) <=> time_position = 0
    /\ volume = 0
    /\ job = Idle
    /\ inbox = <<>>
    /\ cmd = Command("none", FALSE, 0, "", 0)
    /\ seen = Core
    /\ calls = <<>>
    /\ reply = "none"

\* The requests a handler sent without awaiting them.
Sent(x) ==
    LET loose == SelectSeq(x.calls, LAMBDA c : ~c.wait)
    IN  [i \in 1..Len(loose) |-> [op |-> loose[i].op, arg |-> loose[i].arg]]

\* A handler that awaits nothing returns: its requests are in the mailbox.
Post(c, x) ==
    /\ Len(inbox) < MaxInbox
    /\ cmd' = c
    /\ seen' = Start.k
    /\ inbox' = inbox \o Sent(x)
    /\ calls' = x.calls
    /\ reply' = "OK"
    /\ UNCHANGED <<tl_tracks, state, current_tlid, time_position, modes,
                   volume, job>>

Consume ==
    \E value \in BOOLEAN :
        Post(Command("consume", TRUE, Bit(value), "", 0),
             consume(Start, value))

Random ==
    \E value \in BOOLEAN :
        Post(Command("random", TRUE, Bit(value), "", 0),
             random(Start, value))

Repeat ==
    \E value \in BOOLEAN :
        Post(Command("repeat", TRUE, Bit(value), "", 0),
             repeat(Start, value))

Single ==
    \E value \in BOOLEAN :
        Post(Command("single", TRUE, Bit(value), "", 0),
             single(Start, value))

\* What the random order can give next: any entry, or in a random order
\* that is not repeated the end of the playlist.
Picks(k) ==
    IF ~k.modes.random THEN {NoTrack}
    ELSE Range(k.tl_tracks) \cup (IF k.modes.repeat THEN {} ELSE {NoTrack})

NextCmd ==
    \E pick \in Picks(Start.k) :
        Finish(Command("next", FALSE, 0, "", 0), next_(Start, pick))

Previous ==
    Finish(Command("previous", FALSE, 0, "", 0), previous(Start))

NextNav ==
    \/ Consume
    \/ Random
    \/ Repeat
    \/ Single
    \/ NextCmd
    \/ Previous
    \/ Pause
    \/ Stop
    \/ CoreProcess

SpecNav == InitNav /\ [][NextNav]_vars

Setters == {"consume", "random", "repeat", "single"}

\* The last command replied OK and was not stop.
AckedCommand == cmd.name \notin {"none", "stop"} /\ reply = "OK"

AllAwaited == \A i \in 1..Len(calls) : calls[i].wait

Settled == Drain(Core, inbox)

NextInOrder ==
    /\ cmd.name = "next"
    /\ seen.current_tlid # NoTrack
    /\ ~seen.modes.repeat
    /\ ~seen.modes.random

\* C17: with repeat and random off, next makes the entry after the current
\* one the current track; on the last entry it stops playback and unsets
\* the current track.
C17_NextInOrder ==
    NextInOrder =>
        LET c == TracklistIndex(seen, seen.current_tlid)
        IN  /\ calls = <<Awaited("next", 0)>>
            /\ reply = "OK"
            /\ IF c + 1 < Len(seen.tl_tracks)
               THEN current_tlid = seen.tl_tracks[c + 2]
               ELSE state = "stopped" /\ current_tlid = NoTrack

\* next on the last of three tracks while playing in consume mode.
C17_Witness ==
    /\ NextInOrder
    /\ seen.modes.consume
    /\ seen.state = "playing"
    /\ Len(seen.tl_tracks) = 3
    /\ seen.current_tlid = seen.tl_tracks[3]
    /\ state = "stopped"
    /\ current_tlid = NoTrack

\* C18: previous at 15000 ms or more into the current track leaves the
\* current track and puts the position at 0.
C18_PreviousRestarts ==
    (/\ cmd.name = "previous"
     /\ seen.current_tlid # NoTrack
     /\ seen.time_position >= 15000) =>
        /\ current_tlid = seen.current_tlid
        /\ time_position = 0

====
